---------------------------- MODULE Spec2Model ----------------------------
(***************************************************************************)
(* The four analyses of src/app.py: tokenize, syntax_analysis,            *)
(* semantic_analysis and build_parse_tree.                                 *)
(*                                                                         *)
(* A source text is a sequence of one-character strings.  A lexeme, a      *)
(* line stored in a result, a message and a node name are strings, as in   *)
(* the program.  The three analyses that keep all their state in locals    *)
(* are operators; build_parse_tree, whose token list and cursor are module *)
(* globals, is a process that steps through its statements.                *)
(***************************************************************************)
EXTENDS Naturals, Sequences, FiniteSets, TLC

(***************************************************************************)
(* Characters and strings                                                  *)
(***************************************************************************)
Lower == {"a","b","c","d","e","f","g","h","i","j","k","l","m",
          "n","o","p","q","r","s","t","u","v","w","x","y","z"}
Upper == {"A","B","C","D","E","F","G","H","I","J","K","L","M",
          "N","O","P","Q","R","S","T","U","V","W","X","Y","Z"}
Digits == {"0","1","2","3","4","5","6","7","8","9"}
\* [a-zA-Z_]
IdStart == Lower \cup Upper \cup {"_"}
\* [a-zA-Z0-9_]
IdPart == IdStart \cup Digits
\* [+\-*/=]
OpChars == {"+","-","*","/","="}
\* [ \t\n]
SkipChars == {" ","\t","\n"}
\* what str.strip() and str.split() take for whitespace
PyWhitespace == {" ","\t","\n","\r","\f"}

KwInt == <<"i","n","t">>

\* ''.join(s)
RECURSIVE Str(_)
Str(s) == IF s = <<>> THEN "" ELSE Head(s) \o Str(Tail(s))

\* the string made of the strings of ss, in order
RECURSIVE Concat(_)
Concat(ss) == IF ss = <<>> THEN "" ELSE Head(ss) \o Concat(Tail(ss))

\* s.startswith(prefix)
StartsWith(s, prefix) ==
    /\ Len(s) >= Len(prefix)
    /\ SubSeq(s, 1, Len(prefix)) = prefix

\* s.endswith(c), c one character
EndsWith(s, c) == Len(s) >= 1 /\ s[Len(s)] = c

\* c in s
Contains(s, c) == \E i \in 1..Len(s) : s[i] = c

\* s.lstrip()
RECURSIVE LStrip(_)
LStrip(s) ==
    IF s # <<>> /\ Head(s) \in PyWhitespace THEN LStrip(Tail(s)) ELSE s

\* s.rstrip()
RECURSIVE RStrip(_)
RStrip(s) ==
    IF s # <<>> /\ s[Len(s)] \in PyWhitespace
    THEN RStrip(SubSeq(s, 1, Len(s) - 1))
    ELSE s

\* s.strip()
Strip(s) == RStrip(LStrip(s))

\* s.replace(c, "")
RemoveChar(s, c) == SelectSeq(s, LAMBDA x : x # c)

\* the first position of c in s at or after i, Len(s) + 1 when there is none
RECURSIVE Find(_, _, _)
Find(s, c, i) ==
    IF i > Len(s) THEN Len(s) + 1
    ELSE IF s[i] = c THEN i
    ELSE Find(s, c, i + 1)

\* s.split(c): the pieces between the occurrences of c, empty ones kept
RECURSIVE Split(_, _)
Split(s, c) ==
    LET k == Find(s, c, 1)
    IN  IF k > Len(s) THEN <<s>>
        ELSE <<SubSeq(s, 1, k - 1)>> \o Split(SubSeq(s, k + 1, Len(s)), c)

\* the end (exclusive) of the longest run of characters of set at position i
RECURSIVE RunEnd(_, _, _)
RunEnd(s, i, set) ==
    IF i <= Len(s) /\ s[i] \in set THEN RunEnd(s, i + 1, set) ELSE i

\* the end (exclusive) of the run of non-whitespace characters at position i
RECURSIVE WordEnd(_, _)
WordEnd(s, i) ==
    IF i <= Len(s) /\ s[i] \notin PyWhitespace THEN WordEnd(s, i + 1) ELSE i

\* s.split(): the maximal runs of non-whitespace characters
RECURSIVE SplitWs(_)
SplitWs(s) ==
    LET t == LStrip(s)
        k == WordEnd(t, 1)
    IN  IF t = <<>> THEN <<>>
        ELSE <<SubSeq(t, 1, k - 1)>> \o SplitWs(SubSeq(t, k, Len(t)))

(***************************************************************************)
(* Lexical analysis: tokenize                                              *)
(***************************************************************************)
\* The alternative of token_regex that matches at position i and where the
\* match ends (exclusive).  The alternatives are tried in the order of
\* token_specification; "NONE" when no alternative matches at i.
TokenMatchAt(s, i) ==
    IF i + 2 <= Len(s) /\ SubSeq(s, i, i + 2) = KwInt
        THEN [kind |-> "KEYWORD", end |-> i + 3]
    ELSE IF s[i] \in Digits
        THEN [kind |-> "NUMBER", end |-> RunEnd(s, i, Digits)]
    ELSE IF s[i] \in IdStart
        THEN [kind |-> "ID", end |-> RunEnd(s, i, IdPart)]
    ELSE IF s[i] \in OpChars
        THEN [kind |-> "OP", end |-> i + 1]
    ELSE IF s[i] = ";"
        THEN [kind |-> "SEMI", end |-> i + 1]
    ELSE IF s[i] \in SkipChars
        THEN [kind |-> "SKIP", end |-> RunEnd(s, i, SkipChars)]
    ELSE [kind |-> "NONE", end |-> i + 1]

\* key in symbol_table, the dict kept as its items in insertion order
InTable(symbol_table, key) ==
    \E k \in 1..Len(symbol_table) : symbol_table[k][1] = key

\* The loop over re.finditer(token_regex, code) from position i: finditer
\* moves on past a character nothing matches and yields the next match.
RECURSIVE TokenizeFrom(_, _, _, _)
TokenizeFrom(s, i, tokens, symbol_table) ==
    IF i > Len(s) THEN [tokens |-> tokens, symbol_table |-> symbol_table]
    ELSE LET m == TokenMatchAt(s, i)
             value == Str(SubSeq(s, i, m.end - 1))
         IN  IF m.kind = "NONE"
                 THEN TokenizeFrom(s, m.end, tokens, symbol_table)
             ELSE TokenizeFrom(s, m.end,
                     IF m.kind # "SKIP"
                         THEN Append(tokens, <<m.kind, value>>)
                         ELSE tokens,
                     IF m.kind = "ID" /\ ~InTable(symbol_table, value)
                         THEN Append(symbol_table, <<value, "int">>)
                         ELSE symbol_table)

tokenize(code) == TokenizeFrom(code, 1, <<>>, <<>>)

(***************************************************************************)
(* Syntax analysis: syntax_analysis                                        *)
(***************************************************************************)
\* LineVerdict with the two tests in the other order
LineVerdictAssignmentFirst(line) ==
    IF Contains(line, "=") /\ EndsWith(line, ";") THEN "Valid Assignment"
    ELSE IF StartsWith(line, KwInt) /\ EndsWith(line, ";")
        THEN "Valid Declaration"
    ELSE "Syntax Error"

\* the verdict of one stripped line
LineVerdict(line) ==
    IF StartsWith(line, KwInt) /\ EndsWith(line, ";") THEN "Valid Declaration"
    ELSE IF Contains(line, "=") /\ EndsWith(line, ";") THEN "Valid Assignment"
    ELSE "Syntax Error"

\* code.strip().split("\n")
Lines(code) == Split(Strip(code), "\n")

syntax_analysis(code) ==
    LET lines == Lines(code)
    IN  [k \in 1..Len(lines) |->
            LET line == Strip(lines[k])
            IN  <<Str(line), LineVerdict(line)>>]

(***************************************************************************)
(* Semantic analysis: semantic_analysis                                    *)
(***************************************************************************)
MultipleDeclaration(var) ==
    "Semantic Error: Multiple declaration of '" \o var \o "'"

UndeclaredVariable(var) ==
    "Semantic Error: Undeclared variable '" \o var \o "'"

\* re.findall(r'[a-zA-Z_][a-zA-Z0-9_]*', s), from position i
RECURSIVE Identifiers(_, _)
Identifiers(s, i) ==
    IF i > Len(s) THEN <<>>
    ELSE IF s[i] \in IdStart
        THEN LET e == RunEnd(s, i, IdPart)
             IN  <<Str(SubSeq(s, i, e - 1))>> \o Identifiers(s, e)
    ELSE Identifiers(s, i + 1)

\* the errors of the names of a sequence that are not declared, in order
Undeclared(names, declared) ==
    LET missing == SelectSeq(names, LAMBDA x : x \notin declared)
    IN  [k \in 1..Len(missing) |-> UndeclaredVariable(missing[k])]

\* The loop over the lines.  line.split()[1] raises IndexError on a line that
\* starts with "int" and holds one word only: the exception leaves the
\* function, which then returns nothing.
RECURSIVE SemanticLoop(_, _, _)
SemanticLoop(lines, declared, errors) ==
    IF lines = <<>> THEN [kind |-> "ok", value |-> errors]
    ELSE
      LET line == Strip(Head(lines))
      IN  IF StartsWith(line, KwInt)
          THEN LET words == SplitWs(line)
               IN  IF Len(words) < 2
                   THEN [kind |-> "IndexError", value |-> <<>>]
                   ELSE LET var == Str(RemoveChar(words[2], ";"))
                        IN  IF var \in declared
                            THEN SemanticLoop(Tail(lines), declared,
                                     Append(errors, MultipleDeclaration(var)))
                            ELSE SemanticLoop(Tail(lines),
                                     declared \cup {var}, errors)
          ELSE IF Contains(line, "=")
          THEN LET k == Find(line, "=", 1)
                   lhs == Str(Strip(SubSeq(line, 1, k - 1)))
                   rhs == RemoveChar(Strip(SubSeq(line, k + 1, Len(line))), ";")
               IN  SemanticLoop(Tail(lines), declared,
                       errors
                         \o (IF lhs \notin declared
                                THEN <<UndeclaredVariable(lhs)>> ELSE <<>>)
                         \o Undeclared(Identifiers(rhs, 1), declared))
          ELSE SemanticLoop(Tail(lines), declared, errors)

semantic_analysis(code) == SemanticLoop(Lines(code), {}, <<>>)

(***************************************************************************)
(* Parser and parse tree: Node, build_parse_tree                           *)
(***************************************************************************)
\* Node(name)
Node(name) == [name |-> name, children |-> <<>>]

\* node.add_child(child), child a Node
AddChild(node, child) == [node EXCEPT !.children = Append(@, child)]

\* The end (exclusive) of the match of the flattening regex at position i,
\* i itself when nothing matches there.
LexemeEnd(s, i) ==
    IF i + 2 <= Len(s) /\ SubSeq(s, i, i + 2) = KwInt THEN i + 3
    ELSE IF s[i] \in IdStart THEN RunEnd(s, i, IdPart)
    ELSE IF s[i] \in Digits THEN RunEnd(s, i, Digits)
    ELSE IF s[i] \in OpChars \cup {";"} THEN i + 1
    ELSE i

\* re.findall(r'int|[a-zA-Z_][a-zA-Z0-9_]*|[0-9]+|[=+*/-]|;', s) from
\* position i, each lexeme as its characters
RECURSIVE Lexemes(_, _)
Lexemes(s, i) ==
    IF i > Len(s) THEN <<>>
    ELSE LET e == LexemeEnd(s, i)
         IN  IF e = i THEN Lexemes(s, i + 1)
             ELSE <<SubSeq(s, i, e - 1)>> \o Lexemes(s, e)

\* the value build_parse_tree assigns to tokens_list
Flatten(code) ==
    LET ls == Lexemes(code, 1)
    IN  [k \in 1..Len(ls) |-> Str(ls[k])]

NoNode == Node("")

\* match(expected) with the token list toks and the cursor at i (from 0):
\* the node returned, or the exception raised.  The else branch formats
\* tokens_list[index], which raises IndexError when the cursor is at the end.
Match(toks, i, expected) ==
    IF i < Len(toks) /\ toks[i + 1] = expected
        THEN [kind |-> "ok", node |-> Node(expected), msg |-> ""]
    ELSE IF i < Len(toks)
        THEN [kind |-> "SyntaxError", node |-> NoNode,
              msg |-> "Expected '" \o expected \o "', found '"
                          \o toks[i + 1] \o "'"]
    ELSE [kind |-> "IndexError", node |-> NoNode,
          msg |-> "list index out of range"]

\* Node(tokens_list[index])
TokenNode(toks, i) ==
    IF i < Len(toks)
        THEN [kind |-> "ok", node |-> Node(toks[i + 1]), msg |-> ""]
    ELSE [kind |-> "IndexError", node |-> NoNode,
          msg |-> "list index out of range"]

\* what a call of build_parse_tree ends with: the tree returned, or the
\* exception that left it
Returned(tree) == [kind |-> "ok", tree |-> tree, msg |-> ""]
Raised(r) == [kind |-> r.kind, tree |-> NoNode, msg |-> r.msg]
NoResult == [kind |-> "none", tree |-> NoNode, msg |-> ""]

\* what parse_declaration / parse_assignment ends with: its node and the
\* cursor after it, or the exception
Parsed(node, i) == [kind |-> "ok", node |-> node, msg |-> "", index |-> i]
Failed(r) == [kind |-> r.kind, node |-> NoNode, msg |-> r.msg, index |-> 0]

\* parse_declaration() with the token list toks and the cursor at i, no
\* other thread running
parse_declaration(toks, i) ==
    LET kw == Match(toks, i, "int")
        name == TokenNode(toks, i + 1)
        semi == Match(toks, i + 2, ";")
    IN  IF kw.kind # "ok" THEN Failed(kw)
        ELSE IF name.kind # "ok" THEN Failed(name)
        ELSE IF semi.kind # "ok" THEN Failed(semi)
        ELSE Parsed([name |-> "Declaration",
                     children |-> <<kw.node, name.node, semi.node>>], i + 3)

\* parse_assignment() with the token list toks and the cursor at i, no
\* other thread running
parse_assignment(toks, i) ==
    LET lhs == TokenNode(toks, i)
        eq == Match(toks, i + 1, "=")
        term == TokenNode(toks, i + 2)
        more == i + 3 < Len(toks) /\ toks[i + 4] = "+"
        plus == Match(toks, i + 3, "+")
        term2 == TokenNode(toks, i + 4)
        j == IF more THEN i + 5 ELSE i + 3
        semi == Match(toks, j, ";")
        first == <<lhs.node, eq.node, term.node>>
        second == IF more THEN <<plus.node, term2.node>> ELSE <<>>
    IN  IF lhs.kind # "ok" THEN Failed(lhs)
        ELSE IF eq.kind # "ok" THEN Failed(eq)
        ELSE IF term.kind # "ok" THEN Failed(term)
        ELSE IF more /\ plus.kind # "ok" THEN Failed(plus)
        ELSE IF more /\ term2.kind # "ok" THEN Failed(term2)
        ELSE IF semi.kind # "ok" THEN Failed(semi)
        ELSE Parsed([name |-> "Assignment",
                     children |-> first \o second \o <<semi.node>>], j + 1)

\* parse_program()'s loop with the cursor at i and its node so far
RECURSIVE parse_program(_, _, _)
parse_program(toks, i, node) ==
    IF i < Len(toks)
    THEN LET r == IF toks[i + 1] = "int"
                      THEN parse_declaration(toks, i)
                      ELSE parse_assignment(toks, i)
         IN  IF r.kind = "ok"
                 THEN parse_program(toks, r.index, AddChild(node, r.node))
                 ELSE Raised(r)
    ELSE Returned(node)

\* build_parse_tree(code) run from its first statement to its last with no
\* other thread running: what it returns or raises
build_parse_tree(code) == parse_program(Flatten(code), 0, Node("Program"))

(***************************************************************************)
(* Inputs                                                                  *)
(***************************************************************************)
\* the lines the source texts are made of
LineSet ==
    { <<>>,
      <<"i","n","t"," ","a",";">>,
      <<"i","n","t">>,
      <<"a"," ","="," ","b",";">>,
      <<"a"," ","="," ","b"," ","+"," ","b",";">>,
      <<"i","n","t"," ","a"," ","="," ","5",";">>,
      <<"a"," ","="," ","5">>,
      <<" ","b"," ">>,
      <<"a"," ","="," ",";">>,
      <<"i","n","t"," ","5",";">>,
      <<"a","@","b">> }

\* the lines of the source texts given to one of several calls
SeqLineSet ==
    { <<>>,
      <<"i","n","t"," ","a",";">>,
      <<"i","n","t">>,
      <<"a"," ","="," ","b"," ","+"," ","b",";">>,
      <<"a","@","b">> }

\* the most lines of a source text given to a single call
MaxLines == 2
\* the most lines of a source text given to one of several calls
MaxSeqLines == 1

\* "\n".join(ls)
RECURSIVE Join(_)
Join(ls) ==
    IF ls = <<>> THEN <<>>
    ELSE IF Len(ls) = 1 THEN Head(ls)
    ELSE Head(ls) \o <<"\n">> \o Join(Tail(ls))

\* the source texts of at most n lines
SourcesOf(lineSet, n) ==
    { Join(ls) : ls \in UNION { [1..k -> lineSet] : k \in 0..n } }

Sources == SourcesOf(LineSet, MaxLines)
SeqSources == SourcesOf(SeqLineSet, MaxSeqLines)

\* the threads that may run build_parse_tree
Procs == {1, 2}

(***************************************************************************)
(* State                                                                   *)
(***************************************************************************)
VARIABLES
    fn,           \* the function of the latest call, "none" before any
    code,         \* the argument of the latest call of one of the analyses
                  \* that keep their state in locals
    ret,          \* what that call returned or raised
    tokens_list,  \* global tokens_list
    index,        \* global index
    ppc,          \* per thread: the statement of build_parse_tree it is at
    pcode,        \* per thread: build_parse_tree's argument code
    pnode,        \* per thread: parse_program's node
    pstmt,        \* per thread: parse_declaration's / parse_assignment's node
    pret,         \* per thread: what build_parse_tree returned or raised
    before        \* how the latest call of build_parse_tree that ended
                  \* before the latest call began had ended, "none" if none

vars ==
    <<fn, code, ret, tokens_list, index, ppc, pcode, pnode, pstmt, pret,
      before>>
locals == <<fn, code, ret, before>>
globals == <<tokens_list, index>>

NoRet == [kind |-> "none", value |-> <<>>]

\* The module is loaded and nothing was called.  The globals are unbound
\* until build_parse_tree binds them on lines 93-94, which every call does
\* before it reads them; <<>> and 0 stand for unbound.
Init ==
    /\ fn = "none"
    /\ code = <<>>
    /\ ret = NoRet
    /\ tokens_list = <<>>
    /\ index = 0
    /\ ppc = [p \in Procs |-> "idle"]
    /\ pcode = [p \in Procs |-> <<>>]
    /\ pnode = [p \in Procs |-> NoNode]
    /\ pstmt = [p \in Procs |-> NoNode]
    /\ pret = [p \in Procs |-> NoResult]
    /\ before = "none"

\* no call is running
Idle == \A p \in Procs : ppc[p] \in {"idle", "done"}

\* a call begins: how the latest call of build_parse_tree had ended
NoteBefore == before' = IF ppc[1] = "done" THEN pret[1].kind ELSE before

\* the parser's locals of no call
ParserAtRest ==
    /\ ppc' = [p \in Procs |-> "idle"]
    /\ pcode' = [p \in Procs |-> <<>>]
    /\ pnode' = [p \in Procs |-> NoNode]
    /\ pstmt' = [p \in Procs |-> NoNode]
    /\ pret' = [p \in Procs |-> NoResult]

(***************************************************************************)
(* The calls of the analyses that keep their state in locals               *)
(***************************************************************************)
CallTokenize(c) ==
    /\ Idle
    /\ fn' = "tokenize"
    /\ code' = c
    /\ ret' = [kind |-> "ok", value |-> tokenize(c)]
    /\ ParserAtRest
    /\ NoteBefore
    /\ UNCHANGED globals

CallSyntaxAnalysis(c) ==
    /\ Idle
    /\ fn' = "syntax_analysis"
    /\ code' = c
    /\ ret' = [kind |-> "ok", value |-> syntax_analysis(c)]
    /\ ParserAtRest
    /\ NoteBefore
    /\ UNCHANGED globals

CallSemanticAnalysis(c) ==
    /\ Idle
    /\ fn' = "semantic_analysis"
    /\ code' = c
    /\ ret' = semantic_analysis(c)
    /\ ParserAtRest
    /\ NoteBefore
    /\ UNCHANGED globals

(***************************************************************************)
(* build_parse_tree, statement by statement, in thread p                   *)
(***************************************************************************)
\* the call is entered with argument c
StartParse(p, c) ==
    /\ ppc' = [ppc EXCEPT ![p] = "tokens"]
    /\ pcode' = [pcode EXCEPT ![p] = c]
    /\ pnode' = [pnode EXCEPT ![p] = NoNode]
    /\ pstmt' = [pstmt EXCEPT ![p] = NoNode]
    /\ pret' = [pret EXCEPT ![p] = NoResult]
    /\ UNCHANGED globals

\* a call from the one thread of a sequential caller
CallBuildParseTree(c) ==
    /\ Idle
    /\ fn' = "build_parse_tree"
    /\ code' = <<>>
    /\ ret' = NoRet
    /\ NoteBefore
    /\ StartParse(1, c)

\* a call from thread p, which calls once
Spawn(p, c) ==
    /\ ppc[p] = "idle"
    /\ StartParse(p, c)
    /\ UNCHANGED locals

\* line 93: tokens_list = re.findall(...)
SetTokens(p) ==
    /\ ppc[p] = "tokens"
    /\ tokens_list' = Flatten(pcode[p])
    /\ ppc' = [ppc EXCEPT ![p] = "index"]
    /\ UNCHANGED <<locals, index, pcode, pnode, pstmt, pret>>

\* ResetIndex without line 94: the cursor stays where the call before left it
ResetIndexKeepsCursor(p) ==
    /\ ppc[p] = "index"
    /\ pnode' = [pnode EXCEPT ![p] = Node("Program")]
    /\ ppc' = [ppc EXCEPT ![p] = "program"]
    /\ UNCHANGED <<locals, globals, pcode, pstmt, pret>>

\* line 94: index = 0; line 106: node = Node("Program")
ResetIndex(p) ==
    /\ ppc[p] = "index"
    /\ index' = 0
    /\ pnode' = [pnode EXCEPT ![p] = Node("Program")]
    /\ ppc' = [ppc EXCEPT ![p] = "program"]
    /\ UNCHANGED <<locals, tokens_list, pcode, pstmt, pret>>

\* an exception leaves the call
Raise(p, r) ==
    /\ ppc' = [ppc EXCEPT ![p] = "done"]
    /\ pret' = [pret EXCEPT ![p] = Raised(r)]
    /\ UNCHANGED <<locals, globals, pcode, pnode, pstmt>>

\* node.add_child(r.node) in the statement's function, the cursor moved on
\* and the function going to its statement next
Consume(p, r, next) ==
    /\ index' = index + 1
    /\ pstmt' = [pstmt EXCEPT ![p] = AddChild(@, r.node)]
    /\ ppc' = [ppc EXCEPT ![p] = next]
    /\ UNCHANGED <<locals, tokens_list, pcode, pnode, pret>>

\* The same for the last statement of parse_declaration / parse_assignment,
\* which returns its node to parse_program's add_child
ConsumeAndReturn(p, r) ==
    /\ index' = index + 1
    /\ pnode' = [pnode EXCEPT ![p] = AddChild(@, AddChild(pstmt[p], r.node))]
    /\ pstmt' = [pstmt EXCEPT ![p] = NoNode]
    /\ ppc' = [ppc EXCEPT ![p] = "program"]
    /\ UNCHANGED <<locals, tokens_list, pcode, pret>>

\* lines 107-112, 116, 125: parse_program's loop test and dispatch
ParseProgram(p) ==
    /\ ppc[p] = "program"
    /\ IF index < Len(tokens_list)
       THEN /\ IF tokens_list[index + 1] = "int"
                  THEN /\ pstmt' = [pstmt EXCEPT ![p] = Node("Declaration")]
                       /\ ppc' = [ppc EXCEPT ![p] = "decl_int"]
                  ELSE /\ pstmt' = [pstmt EXCEPT ![p] = Node("Assignment")]
                       /\ ppc' = [ppc EXCEPT ![p] = "asg_lhs"]
            /\ UNCHANGED pret
       ELSE /\ ppc' = [ppc EXCEPT ![p] = "done"]
            /\ pret' = [pret EXCEPT ![p] = Returned(pnode[p])]
            /\ UNCHANGED pstmt
    /\ UNCHANGED <<locals, globals, pcode, pnode>>

\* line 117: node.add_child(match('int'))
DeclMatchInt(p) ==
    /\ ppc[p] = "decl_int"
    /\ LET r == Match(tokens_list, index, "int")
       IN  IF r.kind = "ok" THEN Consume(p, r, "decl_name") ELSE Raise(p, r)

\* lines 118-119: node.add_child(Node(tokens_list[index])); index += 1
DeclName(p) ==
    /\ ppc[p] = "decl_name"
    /\ LET r == TokenNode(tokens_list, index)
       IN  IF r.kind = "ok" THEN Consume(p, r, "decl_semi") ELSE Raise(p, r)

\* lines 120-121: node.add_child(match(';')); return node
DeclMatchSemi(p) ==
    /\ ppc[p] = "decl_semi"
    /\ LET r == Match(tokens_list, index, ";")
       IN  IF r.kind = "ok" THEN ConsumeAndReturn(p, r) ELSE Raise(p, r)

\* lines 126-127: node.add_child(Node(tokens_list[index])); index += 1
AsgLhs(p) ==
    /\ ppc[p] = "asg_lhs"
    /\ LET r == TokenNode(tokens_list, index)
       IN  IF r.kind = "ok" THEN Consume(p, r, "asg_eq") ELSE Raise(p, r)

\* line 128: node.add_child(match('='))
AsgMatchEq(p) ==
    /\ ppc[p] = "asg_eq"
    /\ LET r == Match(tokens_list, index, "=")
       IN  IF r.kind = "ok" THEN Consume(p, r, "asg_term") ELSE Raise(p, r)

\* lines 129-130: node.add_child(Node(tokens_list[index])); index += 1
AsgTerm(p) ==
    /\ ppc[p] = "asg_term"
    /\ LET r == TokenNode(tokens_list, index)
       IN  IF r.kind = "ok" THEN Consume(p, r, "asg_test") ELSE Raise(p, r)

\* line 131: if index < len(tokens_list) and tokens_list[index] == '+'
AsgTestPlus(p) ==
    /\ ppc[p] = "asg_test"
    /\ ppc' = [ppc EXCEPT ![p] =
                  IF index < Len(tokens_list) /\ tokens_list[index + 1] = "+"
                      THEN "asg_plus" ELSE "asg_semi"]
    /\ UNCHANGED <<locals, globals, pcode, pnode, pstmt, pret>>

\* AsgMatchPlus with the node match returns not added to the statement
AsgMatchPlusNoChild(p) ==
    /\ ppc[p] = "asg_plus"
    /\ LET r == Match(tokens_list, index, "+")
       IN  IF r.kind = "ok"
           THEN /\ index' = index + 1
                /\ ppc' = [ppc EXCEPT ![p] = "asg_term2"]
                /\ UNCHANGED <<locals, tokens_list, pcode, pnode, pstmt, pret>>
           ELSE Raise(p, r)

\* line 132: node.add_child(match('+'))
AsgMatchPlus(p) ==
    /\ ppc[p] = "asg_plus"
    /\ LET r == Match(tokens_list, index, "+")
       IN  IF r.kind = "ok" THEN Consume(p, r, "asg_term2") ELSE Raise(p, r)

\* lines 133-134: node.add_child(Node(tokens_list[index])); index += 1
AsgTerm2(p) ==
    /\ ppc[p] = "asg_term2"
    /\ LET r == TokenNode(tokens_list, index)
       IN  IF r.kind = "ok" THEN Consume(p, r, "asg_semi") ELSE Raise(p, r)

\* lines 135-136: node.add_child(match(';')); return node
AsgMatchSemi(p) ==
    /\ ppc[p] = "asg_semi"
    /\ LET r == Match(tokens_list, index, ";")
       IN  IF r.kind = "ok" THEN ConsumeAndReturn(p, r) ELSE Raise(p, r)

\* one statement of build_parse_tree in thread p
ParseStep(p) ==
    \/ SetTokens(p)
    \/ ResetIndex(p)
    \/ ParseProgram(p)
    \/ DeclMatchInt(p)
    \/ DeclName(p)
    \/ DeclMatchSemi(p)
    \/ AsgLhs(p)
    \/ AsgMatchEq(p)
    \/ AsgTerm(p)
    \/ AsgTestPlus(p)
    \/ AsgMatchPlus(p)
    \/ AsgTerm2(p)
    \/ AsgMatchSemi(p)

(***************************************************************************)
(* Specifications                                                          *)
(***************************************************************************)
\* One thread calls the four functions one after the other, each call on
\* any source text and after the call before it has ended.
Next ==
    \/ \E c \in SeqSources : CallTokenize(c)
    \/ \E c \in SeqSources : CallSyntaxAnalysis(c)
    \/ \E c \in SeqSources : CallSemanticAnalysis(c)
    \/ \E c \in SeqSources : CallBuildParseTree(c)
    \/ ParseStep(1)

Spec == Init /\ [][Next]_vars

\* One call of one of the four functions, the first after the module is
\* loaded.
NextOnce ==
    \/ \E c \in Sources : fn = "none" /\ CallTokenize(c)
    \/ \E c \in Sources : fn = "none" /\ CallSyntaxAnalysis(c)
    \/ \E c \in Sources : fn = "none" /\ CallSemanticAnalysis(c)
    \/ \E c \in Sources : fn = "none" /\ CallBuildParseTree(c)
    \/ ParseStep(1)

SpecOnce == Init /\ [][NextOnce]_vars

\* Two threads call build_parse_tree once each; their statements interleave
\* in any order.
NextPar ==
    \/ \E p \in Procs, c \in SeqSources : Spawn(p, c)
    \/ \E p \in Procs : ParseStep(p)

SpecPar == Init /\ [][NextPar]_vars

(***************************************************************************)
(* Properties                                                              *)
(***************************************************************************)
\* the call of build_parse_tree in thread 1 has ended
ParseEnded == ppc[1] = "done"

\* ---- semantic_analysis against the reference fold ----

\* the identifier a declaration line names: the word after the keyword
\* without its ';', <<>> when the line has no such word
DeclaredName(line) ==
    LET words == SplitWs(line)
    IN  IF Len(words) < 2 THEN <<>> ELSE RemoveChar(words[2], ";")

\* The reference fold over the lines, from the declared set and the errors
\* so far.
RECURSIVE ReferenceFold(_, _, _)
ReferenceFold(lines, declared, errors) ==
    IF lines = <<>> THEN errors
    ELSE
      LET line == Strip(Head(lines))
          rest == Tail(lines)
      IN  IF StartsWith(line, KwInt)
          THEN LET name == Str(DeclaredName(line))
               IN  IF DeclaredName(line) = <<>>
                       THEN ReferenceFold(rest, declared, errors)
                   ELSE IF name \in declared
                       THEN ReferenceFold(rest, declared,
                                Append(errors, MultipleDeclaration(name)))
                   ELSE ReferenceFold(rest, declared \cup {name}, errors)
          ELSE IF Contains(line, "=")
          THEN LET k == Find(line, "=", 1)
                   lhs == Str(Strip(SubSeq(line, 1, k - 1)))
                   rhs == SubSeq(line, k + 1, Len(line))
               IN  ReferenceFold(rest, declared,
                       errors
                         \o (IF lhs \notin declared
                                THEN <<UndeclaredVariable(lhs)>> ELSE <<>>)
                         \o Undeclared(Identifiers(rhs, 1), declared))
          ELSE ReferenceFold(rest, declared, errors)

\* C1: semantic_analysis returns, for every source text, exactly the error
\* sequence of the reference fold over the physical lines in source order,
\* starting from an empty declared set.
C1_SemanticIsReferenceFold ==
    fn = "semantic_analysis" =>
        /\ ret.kind = "ok"
        /\ ret.value = ReferenceFold(Split(code, "\n"), {}, <<>>)

\* ---- build_parse_tree against the grammar ----

IsIdentifier(t) ==
    /\ t # <<>>
    /\ t # KwInt
    /\ t[1] \in IdStart
    /\ \A k \in 1..Len(t) : t[k] \in IdPart

IsNumber(t) == t # <<>> /\ \A k \in 1..Len(t) : t[k] \in Digits

IsTerm(t) == IsIdentifier(t) \/ IsNumber(t)

\* Declaration := 'int' Identifier ';' at the head of ts
DeclarationAtHead(ts) ==
    /\ Len(ts) >= 3
    /\ ts[1] = KwInt
    /\ IsIdentifier(ts[2])
    /\ ts[3] = <<";">>

\* Assignment := Identifier '=' Term ';' at the head of ts
ShortAssignmentAtHead(ts) ==
    /\ Len(ts) >= 4
    /\ IsIdentifier(ts[1])
    /\ ts[2] = <<"=">>
    /\ IsTerm(ts[3])
    /\ ts[4] = <<";">>

\* Assignment := Identifier '=' Term '+' Term ';' at the head of ts
LongAssignmentAtHead(ts) ==
    /\ Len(ts) >= 6
    /\ IsIdentifier(ts[1])
    /\ ts[2] = <<"=">>
    /\ IsTerm(ts[3])
    /\ ts[4] = <<"+">>
    /\ IsTerm(ts[5])
    /\ ts[6] = <<";">>

\* Program := (Declaration | Assignment)* derives the token sequence ts
RECURSIVE Derivable(_)
Derivable(ts) ==
    \/ ts = <<>>
    \/ DeclarationAtHead(ts) /\ Derivable(SubSeq(ts, 4, Len(ts)))
    \/ ShortAssignmentAtHead(ts) /\ Derivable(SubSeq(ts, 5, Len(ts)))
    \/ LongAssignmentAtHead(ts) /\ Derivable(SubSeq(ts, 7, Len(ts)))

\* C2: build_parse_tree returns a tree if and only if the flattened token
\* sequence is derivable from the grammar; every sequence outside the
\* language makes the parse fail.
C2_TreeIffDerivable ==
    ParseEnded => (pret[1].kind = "ok" <=> Derivable(Lexemes(pcode[1], 1)))

\* ---- the shape of the tree ----

IsLeaf(n) == n.children = <<>>

\* the names of the children of n, in order
ChildNames(n) == [k \in 1..Len(n.children) |-> n.children[k].name]

\* three leaves: the keyword int, the name, ';'
IsDeclarationNode(n) ==
    /\ n.name = "Declaration"
    /\ Len(n.children) = 3
    /\ \A k \in 1..3 : IsLeaf(n.children[k])
    /\ n.children[1].name = "int"
    /\ n.children[3].name = ";"

\* four leaves (lhs, '=', term, ';') or six (lhs, '=', term, '+', term, ';')
IsAssignmentNode(n) ==
    /\ n.name = "Assignment"
    /\ Len(n.children) \in {4, 6}
    /\ \A k \in 1..Len(n.children) : IsLeaf(n.children[k])
    /\ n.children[2].name = "="
    /\ n.children[Len(n.children)].name = ";"
    /\ Len(n.children) = 6 => n.children[4].name = "+"

\* the leaves under the statements ss, left to right
RECURSIVE LeafNames(_)
LeafNames(ss) ==
    IF ss = <<>> THEN <<>>
    ELSE ChildNames(Head(ss)) \o LeafNames(Tail(ss))

C4_VerdictPriority ==
    fn = "syntax_analysis" =>
        \A k \in 1..Len(ret.value) :
            LET line == Strip(Lines(code)[k])
                verdict == ret.value[k][2]
                decl == StartsWith(line, KwInt) /\ EndsWith(line, ";")
                asg == Contains(line, "=") /\ EndsWith(line, ";")
            IN  /\ ret.value[k][1] = Str(line)
                /\ decl => verdict = "Valid Declaration"
                /\ (~decl /\ asg) => verdict = "Valid Assignment"
                /\ (~decl /\ ~asg) => verdict = "Syntax Error"
                /\ (decl /\ asg) => verdict = "Valid Declaration"
                /\ ~EndsWith(line, ";") => verdict = "Syntax Error"

\* a line that passes both tests and a line without the final ';' were
\* classified
C4_BothTestsAndNoSemicolon ==
    /\ fn = "syntax_analysis"
    /\ \E k \in 1..Len(ret.value) :
           ret.value[k] = <<"int a = 5;", "Valid Declaration">>
    /\ \E k \in 1..Len(ret.value) :
           ret.value[k] = <<"a = 5", "Syntax Error">>

\* the physical lines of code that are not empty once trimmed, trimmed
NonEmptyLines(c) ==
    LET kept == SelectSeq(Split(c, "\n"), LAMBDA l : Strip(l) # <<>>)
    IN  [k \in 1..Len(kept) |-> Str(Strip(kept[k]))]

\* C5: syntax_analysis returns exactly one verdict per physical line that is
\* non-empty after trimming, in source order, and none for any other line;
\* empty or whitespace-only input yields an empty verdict list.
C5_OneVerdictPerNonEmptyLine ==
    fn = "syntax_analysis" =>
        /\ Len(ret.value) = Len(NonEmptyLines(code))
        /\ \A k \in 1..Len(ret.value) :
               ret.value[k][1] = NonEmptyLines(code)[k]

\* ---- tokenize ----

\* a character no lexical rule matches
Unrecognized(c) == c \notin IdPart \cup OpChars \cup {";"} \cup SkipChars

\* the lexemes of the tokens, in order
TokenLexemes(tokens) == [k \in 1..Len(tokens) |-> tokens[k][2]]

\* C6: tokenize drops nothing but whitespace, so the lexemes concatenated in
\* order are the source without its whitespace, and on a source with a
\* character no lexical rule matches it fails with a LexError instead of
\* returning a token list.
C6_NothingDroppedOrLexError ==
    fn = "tokenize" =>
        IF \E k \in 1..Len(code) : Unrecognized(code[k])
        THEN ret.kind = "LexError"
        ELSE /\ ret.kind = "ok"
             /\ Concat(TokenLexemes(ret.value.tokens))
                    = Str(SelectSeq(code, LAMBDA c : c \notin SkipChars))

\* ---- failures ----

\* C7: semantic_analysis runs to completion on every source text and
\* returns its error list: no line makes the check abort or stop early.
C7_SemanticRunsToCompletion ==
    fn = "semantic_analysis" => ret.kind = "ok"

\* C8: every failing call of build_parse_tree fails with the parser's
\* syntax error, raised by match with the expected token and the token at
\* the cursor; no other kind of failure is reachable.  On 'a = ;' the call
\* fails so, with ';' the token found.
C8_OnlySyntaxErrors ==
    /\ (ParseEnded /\ pret[1].kind # "ok") => pret[1].kind = "SyntaxError"
    /\ (ParseEnded /\ Flatten(pcode[1]) = <<"a", "=", ";">>) =>
           /\ pret[1].kind = "SyntaxError"
           /\ pret[1].msg # "list index out of range"

\* ---- calls of build_parse_tree that interleave or follow one another ----

\* C9: two calls of build_parse_tree whose statements interleave do not
\* interfere: each ends as it does when it runs alone on its own source.
C9_NoInterference ==
    \A p \in Procs :
        ppc[p] = "done" => pret[p] = build_parse_tree(pcode[p])

\* C10: after any sequence of ended earlier calls of the four functions,
\* calls of build_parse_tree that failed part-way through a statement
\* included, a call returns what the same call returns first in a fresh
\* state: no cursor, token sequence, declared set or symbol table carries
\* over.
C10_NoCarryOver ==
    /\ ParseEnded => pret[1] = build_parse_tree(pcode[1])
    /\ fn = "tokenize" => ret = [kind |-> "ok", value |-> tokenize(code)]
    /\ fn = "syntax_analysis" =>
           ret = [kind |-> "ok", value |-> syntax_analysis(code)]
    /\ fn = "semantic_analysis" => ret = semantic_analysis(code)

\* a call of build_parse_tree returned a tree with a statement after an
\* earlier call had failed with the cursor inside a statement
C10_TreeAfterFailedCall ==
    /\ ParseEnded
    /\ before = "IndexError"
    /\ pret[1].kind = "ok"
    /\ Len(pret[1].tree.children) >= 1

=============================================================================
